---- MODULE Spec2Model ----
(***************************************************************************)
(* Model of evaluation.py, the scorer of predicted aspect spans against a  *)
(* gold standard.  A run of main() in the -acatsent mode is the sequence   *)
(*   get_gold_info (one step per gold line, then its return),              *)
(*   compute_match (one step per prediction line, then its return),        *)
(*   the tail of main (the two compute_sentiment_accuracy calls and the    *)
(*   print of the seven ratios).                                           *)
(* A run in the -rcatsent mode is compute_overall_sentiment_accuracy.      *)
(* A line is the list of its tab-separated fields, each a string; int()    *)
(* is modelled by IntOf on the decimal digit strings.                      *)
(***************************************************************************)
EXTENDS Integers, Sequences, FiniteSets, TLC

\* ------------------------------------------------------------- bounds
\* Offsets range over 0..MaxPos, the gold file has at most MaxGold lines,
\* the prediction file at most MaxPreds lines, a review-level file at most
\* MaxLabelLines lines.
MaxPos == 3
MaxGold == 2
MaxPreds == 2
MaxLabelLines == 3

Digits == <<"0", "1", "2", "3", "4", "5", "6", "7", "8", "9">>

GoldDocs == {"d1", "d2"}
PredDocs == {"d1"}
GoldCats == {"food", "service"}
PredCats == {"food"}
GoldSents == {"pos", "neg"}
PredSents == {"pos"}
\* the tokens of an offset field: the integers 0..MaxPos, and one token
\* int() rejects
OffsetTokens == {Digits[k + 1] : k \in 0..MaxPos}
BadToken == "x"
Spans == {p \in OffsetTokens \X OffsetTokens :
            \E a, b \in 0..MaxPos : a < b /\ Digits[a + 1] = p[1] /\ Digits[b + 1] = p[2]}

WellFormed(docs, cats, sents) ==
    {<<d, c, "_", p[1], p[2], s>> : d \in docs, c \in cats, s \in sents, p \in Spans}

\* malformed records: a record cut to 1..5 fields, and a record whose start
\* or end is not an integer
Malformed(docs, cats, sents) ==
    LET one == CHOOSE l \in WellFormed(docs, cats, sents) : TRUE
    IN  {SubSeq(one, 1, n) : n \in 1..5}
          \cup {[one EXCEPT ![4] = BadToken], [one EXCEPT ![5] = BadToken]}

GoldLines == WellFormed(GoldDocs, GoldCats, GoldSents) \cup Malformed(GoldDocs, GoldCats, GoldSents)
PredLines == WellFormed(PredDocs, PredCats, PredSents) \cup Malformed(PredDocs, PredCats, PredSents)

LabelLines == {"a\n", "b\n", "c\n"}

VARIABLES
    mode,                    \* "acatsent" | "rcatsent" (args)
    pc,                      \* position of the run
    err,                     \* the exception that ended the run, or "none"
    line,                    \* the loop variable: the fields of the line last read
    gold_aspect_cats,        \* doc id -> [starts, ends, cats, sents]
    gold_size,
    full_match, partial_match, full_cat_match, partial_cat_match,
    total,
    fully_matched_pairs, partially_matched_pairs,
    emitted,                 \* the emissions of the scan of `line`, in order
    exact_end_ever,          \* the Branch A exact-end sub-case was taken in some scan
    report,                  \* what main printed
    gold_labels_file, pred_labels_file   \* the lines of the review-level files

vars == <<mode, pc, err, line, gold_aspect_cats, gold_size, full_match, partial_match,
          full_cat_match, partial_cat_match, total, fully_matched_pairs,
          partially_matched_pairs, emitted, exact_end_ever, report,
          gold_labels_file, pred_labels_file>>

counters == <<full_match, partial_match, full_cat_match, partial_cat_match,
              fully_matched_pairs, partially_matched_pairs>>

\* ------------------------------------------------------------ helpers
Range(s) == {s[k] : k \in 1..Len(s)}

\* line[k], with the source's 0-based index
Field(l, k) == l[k + 1]
HasField(l, k) == k + 1 <= Len(l)

\* int(s): defined on the digit strings
IsInt(s) == \E k \in 1..Len(Digits) : Digits[k] = s
IntOf(s) == (CHOOSE k \in 1..Len(Digits) : Digits[k] = s) - 1

\* the position of the last occurrence
IndexLast(s, v) == CHOOSE i \in 1..Len(s) : s[i] = v /\ \A j \in (i + 1)..Len(s) : s[j] # v
\* list.index(v): the position of the first occurrence
Index(s, v) == CHOOSE i \in 1..Len(s) : s[i] = v /\ \A j \in 1..(i - 1) : s[j] # v

EmptyDoc == [starts |-> <<>>, ends |-> <<>>, cats |-> <<>>, sents |-> <<>>]

\* the gold half of a matched pair
GoldRec(d, i) == <<d.starts[i], d.ends[i], d.cats[i], d.sents[i]>>

\* ------------------------------------------------------ get_gold_info
RECURSIVE SumLens(_, _)
SumLens(g, S) ==
    IF S = {} THEN 0
    ELSE LET x == CHOOSE y \in S : TRUE
         IN  Len(g[x].cats) + SumLens(g, S \ {x})

\* gold_size: sum([len(gold_aspect_cats[x]["cats"]) for x in gold_aspect_cats])
GoldSize(g) == SumLens(g, DOMAIN g)

\* the exception lines 39-44 raise on the fields of a gold line, or "none"
GoldLineError(l) ==
    IF ~HasField(l, 3) THEN "IndexError"
    ELSE IF ~IsInt(Field(l, 3)) THEN "ValueError"
    ELSE IF ~HasField(l, 4) THEN "IndexError"
    ELSE IF ~IsInt(Field(l, 4)) THEN "ValueError"
    ELSE IF ~HasField(l, 5) THEN "IndexError"
    ELSE "none"

\* lines 39-44 on a line that raises nothing
AppendGold(g, l) ==
    LET doc == Field(l, 0)
        old == IF doc \in DOMAIN g THEN g[doc] ELSE EmptyDoc
        new == [starts |-> Append(old.starts, IntOf(Field(l, 3))),
                ends   |-> Append(old.ends, IntOf(Field(l, 4))),
                cats   |-> Append(old.cats, Field(l, 1)),
                sents  |-> Append(old.sents, Field(l, 5))]
    IN  [x \in DOMAIN g \cup {doc} |-> IF x = doc THEN new ELSE g[x]]

\* ------------------------------------------------------ compute_match
\* the exception lines 65-67 raise on a prediction line, or "none"
PredLineError(l, g) ==
    IF ~HasField(l, 3) THEN "IndexError"
    ELSE IF ~IsInt(Field(l, 3)) THEN "ValueError"
    ELSE IF ~HasField(l, 4) THEN "IndexError"
    ELSE IF ~IsInt(Field(l, 4)) THEN "ValueError"
    ELSE IF Field(l, 0) \notin DOMAIN g THEN "KeyError"
    ELSE "none"

\* lines 108-125: the forward search over ends[i:], from position j on;
\* the position of the first e_pos with s_pos <= end <= e_pos, or 0
RECURSIVE ForwardSearch(_, _, _, _)
ForwardSearch(d, s_pos, end, j) ==
    IF j > Len(d.ends) THEN 0
    ELSE IF s_pos <= end /\ end <= d.ends[j] THEN j
    ELSE ForwardSearch(d, s_pos, end, j + 1)

\* what one pass of the loop body (lines 89-145) does for the k-th s_pos:
\* the emission, if any, and whether the scan goes on
\* BranchA without the break of lines 124-127
BranchA_NoBreak(d, start, end, k) ==
    LET s_pos == d.starts[k]
        i == Index(d.starts, s_pos)
        e == ForwardSearch(d, s_pos, end, i)
    IN  IF d.ends[i] = end
        THEN [emit |-> <<[via |-> "exact_end", i |-> i, e |-> i]>>, stop |-> FALSE]
        ELSE IF e # 0
        THEN [emit |-> <<[via |-> "forward", i |-> i, e |-> e]>>, stop |-> FALSE]
        ELSE [emit |-> <<>>, stop |-> FALSE]

BranchA(d, start, end, k) ==
    LET s_pos == d.starts[k]
        i == Index(d.starts, s_pos)
        e == ForwardSearch(d, s_pos, end, i)
    IN  IF d.ends[i] = end
        THEN [emit |-> <<[via |-> "exact_end", i |-> i, e |-> i]>>, stop |-> FALSE]
        ELSE IF e # 0
        THEN [emit |-> <<[via |-> "forward", i |-> i, e |-> e]>>, stop |-> TRUE]
        ELSE [emit |-> <<>>, stop |-> FALSE]

\* BranchB with a plain overlap test, start < ends[i], at line 130
BranchB_Overlap(d, start, end, k) ==
    LET s_pos == d.starts[k]
        i == Index(d.starts, s_pos)
    IN  IF start < d.ends[i]
        THEN [emit |-> <<[via |-> "branch_b", i |-> i, e |-> i]>>, stop |-> TRUE]
        ELSE [emit |-> <<>>, stop |-> FALSE]

BranchB(d, start, end, k) ==
    LET s_pos == d.starts[k]
        i == Index(d.starts, s_pos)
    IN  IF start < d.ends[i] /\ d.ends[i] <= end
        THEN [emit |-> <<[via |-> "branch_b", i |-> i, e |-> i]>>, stop |-> TRUE]
        ELSE [emit |-> <<>>, stop |-> FALSE]

\* lines 88-145: the scan from the k-th s_pos on; the emissions in order
RECURSIVE Scan(_, _, _, _)
Scan(d, start, end, k) ==
    IF k > Len(d.starts) THEN <<>>
    ELSE LET r == IF start <= d.starts[k] THEN BranchA(d, start, end, k)
                  ELSE BranchB(d, start, end, k)
         IN  IF r.stop THEN r.emit ELSE r.emit \o Scan(d, start, end, k + 1)

\* lines 68-70: the exact-start probe
FullProbe(d, start, end) ==
    start \in Range(d.starts) /\ d.ends[Index(d.starts, start)] = end

\* lines 68-145: the emissions of one prediction against its document
Classify(d, start, end) ==
    IF FullProbe(d, start, end)
    THEN LET i == Index(d.starts, start)
         IN  <<[via |-> "full", i |-> i, e |-> i]>>
    ELSE Scan(d, start, end, 1)

\* ApplyEmission counting every Partial emission as a category match
ApplyEmission_CatAlways(acc, em, d, l) ==
    LET same_cat == d.cats[em.i] = Field(l, 1)
        pair == <<GoldRec(d, em.i), l>>
    IN  IF em.via = "full"
        THEN [acc EXCEPT !.full_match = @ + 1,
                         !.full_cat_match = IF same_cat THEN @ + 1 ELSE @,
                         !.partial_cat_match = IF same_cat THEN @ ELSE @ + 1,
                         !.fully = Append(@, pair)]
        ELSE [acc EXCEPT !.partial_match = @ + 1,
                         !.partial_cat_match = @ + 1,
                         !.partially = Append(@, pair)]

\* the counter updates and the append of one emission; acc holds the six
\* accumulators
ApplyEmission(acc, em, d, l) ==
    LET same_cat == d.cats[em.i] = Field(l, 1)
        pair == <<GoldRec(d, em.i), l>>
    IN  IF em.via = "full"
        THEN [acc EXCEPT !.full_match = @ + 1,
                         !.full_cat_match = IF same_cat THEN @ + 1 ELSE @,
                         !.partial_cat_match = IF same_cat THEN @ ELSE @ + 1,
                         !.fully = Append(@, pair)]
        ELSE [acc EXCEPT !.partial_match = @ + 1,
                         !.partial_cat_match = IF same_cat THEN @ + 1 ELSE @,
                         !.partially = Append(@, pair)]

RECURSIVE ApplyAll(_, _, _, _)
ApplyAll(acc, ems, d, l) ==
    IF ems = <<>> THEN acc
    ELSE ApplyAll(ApplyEmission(acc, Head(ems), d, l), Tail(ems), d, l)

\* ------------------------------------------- compute_sentiment_accuracy
Last(s) == s[Len(s)]

RECURSIVE SentimentMatches(_)
SentimentMatches(matches) ==
    IF matches = <<>> THEN 0
    ELSE (IF Last(Head(matches)[1]) = Last(Head(matches)[2]) THEN 1 ELSE 0)
           + SentimentMatches(Tail(matches))

\* ------------------------------------------------------------- main
\* a / b of Python: the ratio <<a, b>>, or the ZeroDivisionError
ZeroDivision == <<"ZeroDivisionError">>
Div(a, b) == IF b = 0 THEN ZeroDivision ELSE <<a, b>>
Raises(x) == Len(x) = 1

\* Metrics with the last ratio guarded against an empty list
Metrics_Guarded ==
    LET full_sent_match == SentimentMatches(fully_matched_pairs)
        part_sent_match == SentimentMatches(partially_matched_pairs)
    IN  <<Div(full_match, total),
          Div(full_match, gold_size),
          Div(full_match + partial_match, total),
          Div(full_cat_match, total),
          Div(full_cat_match + partial_cat_match, total),
          Div(full_sent_match, Len(fully_matched_pairs)),
          IF partially_matched_pairs = <<>> THEN <<0, 1>>
          ELSE Div(part_sent_match, Len(partially_matched_pairs))>>

\* lines 204-218: the seven values of the f-string, in order
Metrics ==
    LET full_sent_match == SentimentMatches(fully_matched_pairs)
        part_sent_match == SentimentMatches(partially_matched_pairs)
    IN  <<Div(full_match, total),
          Div(full_match, gold_size),
          Div(full_match + partial_match, total),
          Div(full_cat_match, total),
          Div(full_cat_match + partial_cat_match, total),
          Div(full_sent_match, Len(fully_matched_pairs)),
          Div(part_sent_match, Len(partially_matched_pairs))>>

NoReport == <<>>

\* ------------------------------------------------------------ actions
InitCommon ==
    /\ err = "none"
    /\ line = <<>>
    /\ gold_aspect_cats = <<>>
    /\ gold_size = 0
    /\ full_match = 0 /\ partial_match = 0
    /\ full_cat_match = 0 /\ partial_cat_match = 0
    /\ total = 0
    /\ fully_matched_pairs = <<>> /\ partially_matched_pairs = <<>>
    /\ emitted = <<>>
    /\ exact_end_ever = FALSE
    /\ report = NoReport

Init ==
    /\ mode = "acatsent"
    /\ pc = "gold"
    /\ gold_labels_file = <<>> /\ pred_labels_file = <<>>
    /\ InitCommon

Abort(e) ==
    /\ pc' = "aborted"
    /\ err' = e

\* one pass of the loop of get_gold_info (lines 37-44)
ReadGoldLine ==
    /\ pc = "gold"
    /\ GoldSize(gold_aspect_cats) < MaxGold
    /\ \E l \in GoldLines :
         /\ line' = l
         /\ IF GoldLineError(l) # "none"
            THEN Abort(GoldLineError(l)) /\ UNCHANGED gold_aspect_cats
            ELSE /\ gold_aspect_cats' = AppendGold(gold_aspect_cats, l)
                 /\ UNCHANGED <<pc, err>>
    /\ UNCHANGED <<mode, gold_size, counters, total, emitted, exact_end_ever, report,
                   gold_labels_file, pred_labels_file>>

\* the end of the gold file: lines 46-48
GoldEOF ==
    /\ pc = "gold"
    /\ gold_size' = GoldSize(gold_aspect_cats)
    /\ pc' = "match"
    /\ UNCHANGED <<mode, err, line, gold_aspect_cats, counters, total, emitted,
                   exact_end_ever, report, gold_labels_file, pred_labels_file>>

\* one pass of the loop of compute_match (lines 62-145)
MatchLine ==
    /\ pc = "match"
    /\ total < MaxPreds
    /\ \E l \in PredLines :
         /\ line' = l
         /\ total' = total + 1
         /\ IF PredLineError(l, gold_aspect_cats) # "none"
            THEN /\ Abort(PredLineError(l, gold_aspect_cats))
                 /\ emitted' = <<>>
                 /\ UNCHANGED <<counters, exact_end_ever>>
            ELSE LET d == gold_aspect_cats[Field(l, 0)]
                     ems == Classify(d, IntOf(Field(l, 3)), IntOf(Field(l, 4)))
                     acc == ApplyAll([full_match |-> full_match,
                                      partial_match |-> partial_match,
                                      full_cat_match |-> full_cat_match,
                                      partial_cat_match |-> partial_cat_match,
                                      fully |-> fully_matched_pairs,
                                      partially |-> partially_matched_pairs],
                                     ems, d, l)
                 IN  /\ emitted' = ems
                     /\ full_match' = acc.full_match
                     /\ partial_match' = acc.partial_match
                     /\ full_cat_match' = acc.full_cat_match
                     /\ partial_cat_match' = acc.partial_cat_match
                     /\ fully_matched_pairs' = acc.fully
                     /\ partially_matched_pairs' = acc.partially
                     /\ exact_end_ever' =
                          (exact_end_ever \/ \E n \in 1..Len(ems) : ems[n].via = "exact_end")
                     /\ UNCHANGED <<pc, err>>
    /\ UNCHANGED <<mode, gold_aspect_cats, gold_size, report,
                   gold_labels_file, pred_labels_file>>

\* the end of the prediction file: line 147
MatchEOF ==
    /\ pc = "match"
    /\ pc' = "scored"
    /\ UNCHANGED <<mode, err, line, gold_aspect_cats, gold_size, counters, total,
                   emitted, exact_end_ever, report, gold_labels_file, pred_labels_file>>

\* lines 204-218: the sentiment counts and the print of the seven ratios;
\* the f-string is evaluated whole before anything is printed
Report ==
    /\ pc = "scored"
    /\ IF \E n \in 1..Len(Metrics) : Raises(Metrics[n])
       THEN Abort("ZeroDivisionError") /\ UNCHANGED report
       ELSE pc' = "done" /\ report' = Metrics /\ UNCHANGED err
    /\ UNCHANGED <<mode, line, gold_aspect_cats, gold_size, counters, total,
                   emitted, exact_end_ever, gold_labels_file, pred_labels_file>>

Next == ReadGoldLine \/ GoldEOF \/ MatchLine \/ MatchEOF \/ Report

Spec == Init /\ [][Next]_vars

\* ------------------------------- compute_overall_sentiment_accuracy
\* set(f.readlines()): the lines added to a set one by one
RECURSIVE SetOfLines(_)
SetOfLines(lines) ==
    IF lines = <<>> THEN {}
    ELSE {Head(lines)} \cup SetOfLines(Tail(lines))

\* the accuracy over the lines as lists, duplicates counted
OverallSentimentAccuracy_Multiset(gold_lines, pred_lines) ==
    LET pred_labels == SetOfLines(pred_lines)
        hits == {k \in 1..Len(gold_lines) : gold_lines[k] \in pred_labels}
    IN  Div(Cardinality(hits), Len(gold_lines))

\* lines 170-173
OverallSentimentAccuracy(gold_lines, pred_lines) ==
    LET gold_labels == SetOfLines(gold_lines)
        pred_labels == SetOfLines(pred_lines)
    IN  Div(Cardinality(gold_labels \cap pred_labels), Cardinality(gold_labels))

LabelFiles == UNION {[1..n -> LabelLines] : n \in 0..MaxLabelLines}

InitOverall ==
    /\ mode = "rcatsent"
    /\ pc = "overall"
    /\ gold_labels_file \in LabelFiles
    /\ pred_labels_file \in LabelFiles
    /\ InitCommon

\* lines 228-229
Overall ==
    /\ pc = "overall"
    /\ LET r == OverallSentimentAccuracy(gold_labels_file, pred_labels_file)
       IN  IF Raises(r)
           THEN Abort("ZeroDivisionError") /\ UNCHANGED report
           ELSE pc' = "done" /\ report' = <<r>> /\ UNCHANGED err
    /\ UNCHANGED <<mode, line, gold_aspect_cats, gold_size, counters, total,
                   emitted, exact_end_ever, gold_labels_file, pred_labels_file>>

NextOverall == Overall

SpecOverall == InitOverall /\ [][NextOverall]_vars


\* ------------------------------------------------------------ claims
\* a step of the loop of compute_match that raises nothing
PredStep == pc = "match" /\ pc' = "match" /\ total' = total + 1

PredStart(l) == IntOf(Field(l, 3))
PredEnd(l) == IntOf(Field(l, 4))
DocOf(l) == gold_aspect_cats[Field(l, 0)]
AllPairs == Range(fully_matched_pairs) \cup Range(partially_matched_pairs)
NewFull == Len(fully_matched_pairs') - Len(fully_matched_pairs)
NewPartial == Len(partially_matched_pairs') - Len(partially_matched_pairs)

\* the first span, in file order, with start s
FirstWithStart(d, s) ==
    CHOOSE i \in 1..Len(d.starts) : d.starts[i] = s /\ \A j \in 1..(i - 1) : d.starts[j] # s

\* `line` is a prediction that compute_match took without raising
LineScored == total >= 1 /\ err = "none"

\* C1: a prediction whose (start, end) equals the (start, end) of some gold
\* span of its document is classified Full: full_match goes up by one, one
\* record is appended to fully_matched_pairs and none to
\* partially_matched_pairs, whatever the labels are.
SameBoundsInGold(d, l) ==
    \E i \in 1..Len(d.starts) : d.starts[i] = PredStart(l) /\ d.ends[i] = PredEnd(l)

C1_ExactBoundsYieldFull ==
    [][(PredStep /\ SameBoundsInGold(DocOf(line'), line'))
         => /\ full_match' = full_match + 1
            /\ NewFull = 1
            /\ partially_matched_pairs' = partially_matched_pairs]_vars

\* C2: with start < end everywhere, a prediction that shares no character
\* position with any gold span of its document under [start, end) offsets
\* yields NoMatch: no record is appended and no counter but the total changes.
DisjointFromGold(d, l) ==
    \A i \in 1..Len(d.starts) : PredEnd(l) <= d.starts[i] \/ d.ends[i] <= PredStart(l)

C2_DisjointYieldsNoMatch ==
    [][(PredStep /\ DisjointFromGold(DocOf(line'), line')) => UNCHANGED counters]_vars

\* C3: when the scan ends in the forward search of Branch A, the search
\* selects the first span e at or after g with s.start <= prediction.end
\* <= e.end, and the Partial record emitted pairs the prediction with e.
FirstCovering(d, i, end) ==
    CHOOSE j \in i..Len(d.ends) :
        /\ d.starts[i] <= end /\ end <= d.ends[j]
        /\ \A h \in i..(j - 1) : ~(d.starts[i] <= end /\ end <= d.ends[h])

C3_ForwardPairsWithE ==
    (emitted # <<>> /\ Last(emitted).via = "forward")
      => LET d == DocOf(line)
             e == FirstCovering(d, Last(emitted).i, PredEnd(line))
         IN  /\ Last(emitted).e = e
             /\ Last(partially_matched_pairs) = <<GoldRec(d, e), line>>

\* C4: a prediction produces exactly one Full record and no Partial record,
\* or only Partial records, or none; it produces more than one Partial
\* record only if the Branch A exact-end sub-case was taken in its scan; and
\* while that sub-case was never taken, full_match + partial_match is at
\* most total.
C4_EmissionShape ==
    [][(total' = total + 1)
         => /\ (NewFull = 1 /\ NewPartial = 0) \/ NewFull = 0
            /\ NewFull >= 0 /\ NewPartial >= 0
            /\ NewPartial > 1 => \E n \in 1..Len(emitted') : emitted'[n].via = "exact_end"
            /\ ~exact_end_ever' => full_match' + partial_match' <= total']_vars

C4_Witness ==
    /\ Len(emitted) >= 2
    /\ \E n \in 1..Len(emitted) : emitted[n].via = "exact_end"
    /\ full_match + partial_match > total

\* C5: full_cat_match <= full_match and full_cat_match + partial_cat_match
\* <= full_match + partial_match always; a Full emission increments
\* full_cat_match when the categories agree and partial_cat_match otherwise,
\* a Partial emission increments partial_cat_match only when they agree, and
\* a step without emission changes neither category counter.
CatsAgree(pair) == pair[1][3] = Field(pair[2], 1)

C5_CategoryCounters ==
    [][LET dFC == full_cat_match' - full_cat_match
           dPC == partial_cat_match' - partial_cat_match
           agreeing == {n \in (Len(partially_matched_pairs) + 1)..Len(partially_matched_pairs') :
                          CatsAgree(partially_matched_pairs'[n])}
       IN  /\ full_cat_match' <= full_match'
           /\ full_cat_match' + partial_cat_match' <= full_match' + partial_match'
           /\ NewFull = full_match' - full_match
           /\ NewPartial = partial_match' - partial_match
           /\ dFC >= 0 /\ dPC >= 0 /\ dFC + dPC <= NewFull + NewPartial
           /\ NewFull = 1 =>
                IF CatsAgree(Last(fully_matched_pairs'))
                THEN dFC = 1 /\ dPC = 0
                ELSE dFC = 0 /\ dPC = 1
           /\ NewFull = 0 => dFC = 0 /\ dPC = Cardinality(agreeing)]_vars

C5_Witness ==
    /\ full_match = 1 /\ full_cat_match = 0
    /\ partial_match = 0 /\ partial_cat_match = 1

\* C6: with a non-empty gold file, compute_overall_sentiment_accuracy returns
\* |G \cap P| / |G| for the sets G, P of distinct lines of the two files; the
\* result does not change when a line is repeated on either side, and lies
\* between 0 and 1.
C6_OverallIsSetRatio ==
    (pc # "overall" /\ gold_labels_file # <<>>)
      => LET G == Range(gold_labels_file)
             P == Range(pred_labels_file)
         IN  /\ pc = "done"
             /\ report = <<<<Cardinality(G \cap P), Cardinality(G)>>>>
             /\ 0 <= report[1][1] /\ report[1][1] <= report[1][2] /\ 0 < report[1][2]
             /\ \A k \in 1..Len(gold_labels_file) :
                  OverallSentimentAccuracy(Append(gold_labels_file, gold_labels_file[k]),
                                           pred_labels_file) = report[1]
             /\ \A k \in 1..Len(pred_labels_file) :
                  OverallSentimentAccuracy(gold_labels_file,
                                           Append(pred_labels_file, pred_labels_file[k])) = report[1]

C6_Witness ==
    /\ gold_labels_file = <<"a\n", "a\n", "b\n">>
    /\ pred_labels_file = <<"a\n">>
    /\ report = <<<<1, 2>>>>

\* C7: a record of the gold or of the prediction file with fewer than six
\* fields, or whose start or end is not an integer, aborts the run: nothing
\* is returned or reported once such a record was read.
IsMalformedRecord(l) ==
    /\ Len(l) >= 1
    /\ \/ Len(l) < 6
       \/ ~IsInt(Field(l, 3))
       \/ ~IsInt(Field(l, 4))

C7_MalformedRecordAborts ==
    IsMalformedRecord(line) => (pc = "aborted" /\ report = NoReport)

\* C8: in the aspect-category-sentiment mode, if after the scoring pass a
\* denominator is zero (total, gold_size, the number of full pairs, the
\* number of partial pairs) the run ends in a division error and reports
\* nothing; otherwise it reports all seven ratios.
AnyZeroDenominator ==
    \/ total = 0
    \/ gold_size = 0
    \/ fully_matched_pairs = <<>>
    \/ partially_matched_pairs = <<>>

C8_ReportOrDivisionError ==
    [][pc = "scored"
         => IF AnyZeroDenominator
            THEN pc' = "aborted" /\ err' = "ZeroDivisionError" /\ report' = NoReport
            ELSE /\ pc' = "done" /\ err' = "none"
                 /\ Len(report') = 7
                 /\ \A n \in 1..7 : Len(report'[n]) = 2 /\ report'[n][2] > 0]_vars

C8_Witness ==
    /\ pc = "aborted" /\ err = "ZeroDivisionError"
    /\ total > 0 /\ gold_size > 0
    /\ fully_matched_pairs # <<>>
    /\ partially_matched_pairs = <<>>

\* C9: the gold span of every record of fully_matched_pairs and
\* partially_matched_pairs is the first span, in file order, of its document
\* with that start, so a span that shares its start with an earlier one is
\* never recorded; with duplicated starts the same pair may be recorded more
\* than once.
C9_RecordsHoldFirstSpan ==
    /\ \A r \in AllPairs :
         LET d == DocOf(r[2])
         IN  /\ r[1][1] \in Range(d.starts)
             /\ r[1] = GoldRec(d, FirstWithStart(d, r[1][1]))
    /\ emitted # <<>> =>
         \A n \in 1..Len(emitted) :
           emitted[n].i = FirstWithStart(DocOf(line), DocOf(line).starts[emitted[n].i])

C9_Witness ==
    /\ Len(emitted) >= 2
    /\ emitted[1].i = emitted[2].i
    /\ Len(partially_matched_pairs) >= 2
    /\ partially_matched_pairs[1] = partially_matched_pairs[2]
    /\ \E m, n \in 1..Len(DocOf(line).starts) :
         m < n /\ DocOf(line).starts[m] = DocOf(line).starts[n]

\* C10: no record pairs a prediction with a gold span that strictly contains
\* it (g.start < prediction.start and prediction.end < g.end); when the only
\* gold span of the document strictly contains the prediction, the
\* prediction yields NoMatch.
StrictlyContains(g, l) == g[1] < PredStart(l) /\ PredEnd(l) < g[2]

OnlySpanContainsLine ==
    /\ LineScored
    /\ Len(DocOf(line).starts) = 1
    /\ StrictlyContains(GoldRec(DocOf(line), 1), line)

C10_NoStrictlyContainingMatch ==
    /\ \A r \in AllPairs : ~StrictlyContains(r[1], r[2])
    /\ OnlySpanContainsLine =>
         (emitted = <<>> /\ \A r \in AllPairs : r[2] # line)

C10_Witness ==
    /\ OnlySpanContainsLine
    /\ pc = "match"
    /\ fully_matched_pairs = <<>> /\ partially_matched_pairs = <<>>

====
